---------------------------- MODULE Spec2Model ----------------------------
(***************************************************************************)
(* A model of server.js: the job-application site.  The state is the two   *)
(* JSON stores (jobs.json, applications.json), the uploads directory, the  *)
(* mail log, the calls made to the mail API, the admin session, the clock  *)
(* behind Date.now(), and the requests that are suspended (an upload that  *)
(* multer is still writing to disk, an upload handed to the apply          *)
(* callback, a confirmation or a rejection waiting for the mail API).      *)
(*                                                                         *)
(* Strings that the code inspects (regular expressions, parseInt,          *)
(* path.extname, the whitespace replacement of the stored file name) are   *)
(* sequences of one-character strings.  A value that may be undefined is   *)
(* a tagged record: JSUndefined or JSString(chars).  Free-text fields the  *)
(* code only copies (a job's title, location and description, appliedAt,   *)
(* postedAt) are left out of the records.                                  *)
(***************************************************************************)
EXTENDS Integers, Sequences, FiniteSets, TLC

VARIABLES
    env,                \* the four EmailJS values of process.env, set or missing
    mailerConfigured,   \* server.js:61-70
    ADMIN_USER,         \* server.js:271-274
    __dirname,          \* the directory of server.js: its segments from the root
    jobs,               \* contents of data/jobs.json
    apps,               \* contents of data/applications.json
    files,              \* uploads directory: stored file name -> [size, ino]
    mailLog,            \* lines of data/email-log.jsonl
    apiCalls,           \* number of fetch() calls made to the mail API
    session,            \* the browser's session record (express-session)
    now,                \* Date.now()
    incoming,           \* applies whose resume multer is still writing to disk
    uploads,            \* applies whose upload is done, callback not yet run
    confirms,           \* applies awaiting sendEmailJS (confirmation)
    rejects,            \* rejects awaiting sendEmailJS (rejection)
    resp                \* the response sent by the last step (NoResp: none)

config == <<env, mailerConfigured, ADMIN_USER, __dirname>>

vars == <<env, mailerConfigured, ADMIN_USER, __dirname, jobs, apps, files, mailLog, apiCalls,
          session, now, incoming, uploads, confirms, rejects, resp>>

-----------------------------------------------------------------------------
(* Bounds of the model. *)

MaxTime == 2
MaxJobs == 2
MaxApps == 2
MaxMail == 3
MaxPending == 1

-----------------------------------------------------------------------------
(* JavaScript values. *)

JSUndefined == [t |-> "undefined"]
JSString(s) == [t |-> "string", v |-> s]
NaN == [t |-> "NaN"]
JSNull == [t |-> "null"]

\* A number that is an integer: its sign and its decimal digits, without
\* leading zeros.  The numbers of the job form are doubles, and the digits
\* can say every integer a double can be.
JSNumber(neg, digits) == [t |-> "number", neg |-> neg, digits |-> digits]
Infinity(neg) == [t |-> "Infinity", neg |-> neg]

\* !x for a form value: undefined and '' are falsy
Falsy(x) == x = JSUndefined \/ x = JSString(<<>>)

\* x || '' (and x || '1', x || '0')
OrElse(x, d) == IF Falsy(x) THEN d ELSE x

\* The characters of \s in a regular expression, which are also the white
\* space parseInt skips, as far as a string of this module can hold them:
\* space, tab, line feed, carriage return, form feed, vertical tab (U+000B)
\* and no-break space (U+00A0).  (The space separators above U+00FF cannot
\* be written in a string here; no input of the model contains them.)
Whitespace == {" ", "\t", "\n", "\r", "\f", "", " "}
DigitChars == <<"0", "1", "2", "3", "4", "5", "6", "7", "8", "9">>
IsDigit(c) == \E i \in 1..10 : DigitChars[i] = c
DigitVal(c) == (CHOOSE i \in 1..10 : DigitChars[i] = c) - 1

\* /^[^\s@]+@[^\s@]+\.[^\s@]+$/.test(email)
NotSpaceAt(c) == c \notin Whitespace /\ c /= "@"
emailRe(s) ==
    \E i \in 1..Len(s) : \E j \in 1..Len(s) :
        /\ 1 < i /\ i + 1 < j /\ j < Len(s)
        /\ s[i] = "@" /\ s[j] = "."
        /\ \A k \in 1..Len(s) : k /= i => NotSpaceAt(s[k])

\* /^[0-9+\-\s]{7,20}$/.test(phone)
PhoneChar(c) == IsDigit(c) \/ c \in {"+", "-"} \/ c \in Whitespace
phoneRe(s) == Len(s) >= 7 /\ Len(s) <= 20 /\ \A k \in 1..Len(s) : PhoneChar(s[k])


\* The decimal digits of a natural number: a sequence of the values 0..9,
\* most significant first, without leading zeros (0 is <<0>>).
stripZeros(d) ==
    LET nz == {k \in 1..Len(d) : d[k] /= 0}
    IN  IF nz = {} THEN <<0>>
        ELSE SubSeq(d, CHOOSE k \in nz : \A m \in nz : k <= m, Len(d))

\* a <= b for two digit sequences
digitsLE(a, b) ==
    \/ Len(a) < Len(b)
    \/ /\ Len(a) = Len(b)
       /\ \/ a = b
          \/ \E k \in 1..Len(a) : a[k] < b[k] /\ \A m \in 1..(k - 1) : a[m] = b[m]

\* For the arithmetic the digits are taken eight at a time: a natural number
\* is then a sequence of limbs in 0..Base-1, most significant first, the
\* first one not 0 (0 is <<0>>).
Base == 100000000
Scale == <<10000000, 1000000, 100000, 10000, 1000, 100, 10, 1>>

toLimbs(d) ==
    LET n == (Len(d) + 7) \div 8
        \* the digit p places before the end of d, 0 before its start
        at(p) == IF p < Len(d) THEN d[Len(d) - p] ELSE 0
        limb(j) == LET low == 8 * (n - j)
                   IN  at(low + 7) * Scale[1] + at(low + 6) * Scale[2]
                       + at(low + 5) * Scale[3] + at(low + 4) * Scale[4]
                       + at(low + 3) * Scale[5] + at(low + 2) * Scale[6]
                       + at(low + 1) * Scale[7] + at(low)
    IN  SubSeq([j \in 1..n |-> limb(j)], 1, n)

fromLimbs(l) ==
    stripZeros([k \in 1..(8 * Len(l)) |->
                   (l[(k + 7) \div 8] \div Scale[((k - 1) % 8) + 1]) % 10])

\* l \div 2: each limb is halved after the remainder of the one before it
halve(l) ==
    LET q == [k \in 1..Len(l) |->
                 (l[k] + Base * (IF k > 1 THEN l[k - 1] % 2 ELSE 0)) \div 2]
    IN  \* the first limb of q is 0 when that of l is 0 or 1
        SubSeq(q, IF l[1] <= 1 /\ Len(l) > 1 THEN 2 ELSE 1, Len(l))

\* 2 * l + b for a bit b
double(l, b) ==
    LET carry(k) == IF k <= Len(l) THEN (IF 2 * l[k] >= Base THEN 1 ELSE 0) ELSE b
        low == [k \in 1..Len(l) |-> (2 * l[k] + carry(k + 1)) % Base]
    IN  SubSeq(<<1>> \o low, IF 2 * l[1] >= Base THEN 1 ELSE 2, Len(l) + 1)

\* l \div 2^n (q) and the n binary digits of l % 2^n, most significant
\* first (bits), for n >= 1; the work is split in two halves
RECURSIVE lowBits(_, _)
lowBits(l, n) ==
    IF n = 1 THEN [q |-> halve(l), bits |-> <<l[Len(l)] % 2>>]
    ELSE LET lo == lowBits(l, n \div 2)
             hi == lowBits(lo.q, n - n \div 2)
         IN  \* the comparison has lo worked out before hi
             IF lo.q = <<>> THEN lo
             ELSE [q |-> hi.q, bits |-> hi.bits \o lo.bits]

\* the binary digits of l, most significant first (none for 0); a limb has
\* at most 27 of them
toBits(l) ==
    LET bits == lowBits(l, 27 * Len(l)).bits
        ones == {k \in 1..Len(bits) : bits[k] = 1}
    IN  IF ones = {} THEN <<>>
        ELSE SubSeq(bits, CHOOSE k \in ones : \A m \in ones : k <= m, Len(bits))

\* the number of the binary digits bits, after acc; the work is split in
\* two halves
RECURSIVE fromBits(_, _)
fromBits(bits, acc) ==
    IF bits = <<>> THEN acc
    ELSE IF Len(bits) = 1 THEN double(acc, bits[1])
    ELSE LET h == Len(bits) \div 2
             left == fromBits(SubSeq(bits, 1, h), acc)
         IN  \* the comparison has left worked out before the rest
             IF left = <<>> THEN left
             ELSE fromBits(SubSeq(bits, h + 1, Len(bits)), left)

\* bits + 1 for binary digits that are not all 1
increment(bits) ==
    LET z == CHOOSE k \in 1..Len(bits) : bits[k] = 0 /\ \A m \in (k + 1)..Len(bits) : bits[m] = 1
    IN  [k \in 1..Len(bits) |-> IF k < z THEN bits[k] ELSE IF k = z THEN 1 ELSE 0]

\* The double that a natural number becomes (the Number value for it):
\* the number itself up to 53 significant binary digits, else rounded to
\* 53 of them, to the nearest and on a tie to the even one; Infinity from
\* 2^1024 on.  The result is the digits of the double, or <<>> for
\* Infinity.
significand == 53
toDouble(d) ==
    LET bits == toBits(toLimbs(d))
        L == Len(bits)
        m == SubSeq(bits, 1, significand)
        up == /\ bits[significand + 1] = 1
              /\ \/ m[significand] = 1
                 \/ \E k \in (significand + 2)..L : bits[k] = 1
        zeros == [k \in 1..(L - significand) |-> 0]
        carried == \A k \in 1..significand : m[k] = 1
        rounded == IF ~up THEN m \o zeros
                   ELSE IF carried THEN <<1>> \o [k \in 1..significand |-> 0] \o zeros
                   ELSE increment(m) \o zeros
    IN  IF L <= significand THEN d
        ELSE IF Len(rounded) > 1024 THEN <<>>
        ELSE fromLimbs(fromBits(rounded, <<0>>))

\* parseInt(s, 10): leading whitespace is skipped, then an optional sign, then
\* the longest run of decimal digits; NaN when that run is empty, else the
\* double nearest to the integer the digits say
RECURSIVE SkipSpace(_)
SkipSpace(s) == IF s /= <<>> /\ Head(s) \in Whitespace THEN SkipSpace(Tail(s)) ELSE s

\* the values of the digits that s begins with, after acc
DigitRun(s, acc) ==
    LET others == {k \in 1..Len(s) : ~IsDigit(s[k])} \cup {Len(s) + 1}
        n == (CHOOSE k \in others : \A m \in others : k <= m) - 1
    IN  acc \o [k \in 1..n |-> DigitVal(s[k])]

digitChars(d) == [k \in 1..Len(d) |-> DigitChars[d[k] + 1]]

parseInt(x) ==
    LET s == SkipSpace(x.v)
        neg == s /= <<>> /\ Head(s) = "-"
        body == IF s /= <<>> /\ Head(s) \in {"+", "-"} THEN Tail(s) ELSE s
        number == toDouble(stripZeros(DigitRun(body, <<>>)))
    IN  IF body = <<>> \/ ~IsDigit(Head(body)) THEN NaN
        ELSE IF number = <<>> THEN Infinity(neg)
        ELSE JSNumber(neg, digitChars(number))

Zero == JSNumber(FALSE, <<"0">>)
One == JSNumber(FALSE, <<"1">>)
Fifty == JSNumber(FALSE, <<"5", "0">>)

\* n || d for the result of parseInt: NaN, 0 and -0 are falsy
NumOr(n, d) == IF n = NaN \/ (n.t = "number" /\ n.digits = <<"0">>) THEN d ELSE n

\* a <= b for two numbers, neither of them NaN or -0
numLE(a, b) ==
    LET mag(x) == IF x.t = "Infinity" THEN <<>> ELSE [k \in 1..Len(x.digits) |-> DigitVal(x.digits[k])]
        magLE(x, y) == \/ y.t = "Infinity"
                       \/ x.t /= "Infinity" /\ digitsLE(mag(x), mag(y))
    IN  IF a.neg /= b.neg THEN a.neg
        ELSE IF a.neg THEN magLE(b, a) ELSE magLE(a, b)

\* Math.max(a, b), Math.min(a, b)
Max(a, b) == IF numLE(b, a) THEN a ELSE b
Min(a, b) == IF numLE(a, b) THEN a ELSE b

\* Math.max(1, parseInt(openings || '1', 10) || 1)
openingsNum(openings) == Max(One, NumOr(parseInt(OrElse(openings, JSString(<<"1">>))), One))

\* a faulty variant without the upper clamp, for testing C9
expNumNoUpper(experience) == Max(Zero, NumOr(parseInt(OrElse(experience, JSString(<<"0">>))), Zero))

\* Math.max(0, Math.min(50, parseInt(experience || '0', 10) || 0))
expNum(experience) == Max(Zero, Min(Fifty, NumOr(parseInt(OrElse(experience, JSString(<<"0">>))), Zero)))

\* A number as JSON.stringify writes it to jobs.json and JSON.parse reads it
\* back (lines 120-131): Infinity is written as null, every other number of
\* the form reads back as itself.
stringify(n) == IF n.t = "Infinity" THEN JSNull ELSE n

-----------------------------------------------------------------------------
(* The upload: multer's disk storage and file filter. *)

MIN_RESUME_BYTES == 51200
MAX_RESUME_BYTES == 5242880

allowedExt == {<<".", "p", "d", "f">>, <<".", "d", "o", "c">>, <<".", "d", "o", "c", "x">>}

\* String.prototype.toLowerCase on the letters a string of this module can
\* hold: A-Z and the capitals of Latin-1
UpperChars ==
    <<"A", "B", "C", "D", "E", "F", "G", "H", "I", "J", "K", "L", "M", "N",
      "O", "P", "Q", "R", "S", "T", "U", "V", "W", "X", "Y", "Z", "À", "Á",
      "Â", "Ã", "Ä", "Å", "Æ", "Ç", "È", "É", "Ê", "Ë", "Ì", "Í", "Î", "Ï",
      "Ð", "Ñ", "Ò", "Ó", "Ô", "Õ", "Ö", "Ø", "Ù", "Ú", "Û", "Ü", "Ý", "Þ">>
LowerChars ==
    <<"a", "b", "c", "d", "e", "f", "g", "h", "i", "j", "k", "l", "m", "n",
      "o", "p", "q", "r", "s", "t", "u", "v", "w", "x", "y", "z", "à", "á",
      "â", "ã", "ä", "å", "æ", "ç", "è", "é", "ê", "ë", "ì", "í", "î", "ï",
      "ð", "ñ", "ò", "ó", "ô", "õ", "ö", "ø", "ù", "ú", "û", "ü", "ý", "þ">>
toLowerCase(s) ==
    [k \in 1..Len(s) |->
        IF \E i \in 1..Len(UpperChars) : UpperChars[i] = s[k]
        THEN LowerChars[CHOOSE i \in 1..Len(UpperChars) : UpperChars[i] = s[k]]
        ELSE s[k]]

\* path.extname(name) (posix): the last path component, trailing '/'
\* ignored, from its last '.' to its end; '' when the component has no '.',
\* when its last '.' is its first character, or when it is '..'
SetMax(S) == CHOOSE k \in S : \A m \in S : m <= k
extname(name) ==
    LET nonSep == {k \in 1..Len(name) : name[k] /= "/"}
        end == IF nonSep = {} THEN 0 ELSE SetMax(nonSep)
        seps == {k \in 1..end : name[k] = "/"}
        startPart == IF seps = {} THEN 1 ELSE SetMax(seps) + 1
        dots == {k \in startPart..end : name[k] = "."}
        startDot == SetMax(dots)
    IN  IF end = 0 \/ dots = {} THEN <<>>
        ELSE IF startDot = startPart THEN <<>>
        ELSE IF end = startPart + 1 /\ name[startPart] = "." THEN <<>>
        ELSE SubSeq(name, startDot, end)

\* fileFilter: the extension alone decides (either branch accepts on it)
fileFilter(name) == toLowerCase(extname(name)) \in allowedExt

\* originalname.replace(/\s+/g, '_'): each run of whitespace becomes one '_'
RECURSIVE replaceSpaces(_)
replaceSpaces(s) ==
    IF s = <<>> THEN <<>>
    ELSE IF Head(s) \in Whitespace
         THEN <<"_">> \o replaceSpaces(SkipSpace(s))
         ELSE <<Head(s)>> \o replaceSpaces(Tail(s))

\* storage.filename: Date.now() + '-' + originalname.replace(/\s+/g, '_')
filename(t, name) == <<ToString(t), "-">> \o replaceSpaces(name)

uploadsDir == <<"u", "p", "l", "o", "a", "d", "s">>

\* The delete paths' resolution of a stored resume reference to the file
\* they unlink (lines 337-340, 367-369, 438-440): leading slashes stripped,
\* every backslash turned into path.sep ('/'), then
\* path.join(__dirname, resumePath), which drops empty and '.' segments and
\* resolves '..' against the segments before it, those of __dirname
\* included.  A path is the sequence of its segments from the root.
NoFile == <<>>
RECURSIVE stripLeadingSlashes(_)
stripLeadingSlashes(s) ==
    IF s /= <<>> /\ Head(s) = "/" THEN stripLeadingSlashes(Tail(s)) ELSE s

\* resumePath.split('/').join(path.sep).split('\\').join(path.sep)
toPathSep(s) == [k \in 1..Len(s) |-> IF s[k] = "\\" THEN "/" ELSE s[k]]

\* the segments between the separators of a path, empty ones included
RECURSIVE segments(_, _)
segments(s, cur) ==
    IF s = <<>> THEN <<cur>>
    ELSE IF Head(s) = "/" THEN <<cur>> \o segments(Tail(s), <<>>)
    ELSE segments(Tail(s), Append(cur, Head(s)))

\* path.join's normalisation of the segments of an absolute path: '..'
\* removes the segment before it and is dropped at the root
RECURSIVE normalize(_, _)
normalize(segs, acc) ==
    IF segs = <<>> THEN acc
    ELSE IF Head(segs) = <<>> \/ Head(segs) = <<".">> THEN normalize(Tail(segs), acc)
    ELSE IF Head(segs) = <<".", ".">>
         THEN normalize(Tail(segs), SubSeq(acc, 1, Len(acc) - 1))
    ELSE normalize(Tail(segs), Append(acc, Head(segs)))

\* const full = path.join(dir, resumePath) for the server directory dir.
\* path.join keeps a trailing separator, which makes the path name a
\* directory: it is kept as a last, empty segment, so that the path is not
\* the path of any file.
full(dir, resume) ==
    LET p == toPathSep(stripLeadingSlashes(resume))
        n == normalize(dir \o segments(p, <<>>), <<>>)
    IN  IF p /= <<>> /\ p[Len(p)] = "/" THEN Append(n, <<>>) ELSE n

\* req.file.path: the disk storage's path.join(uploadsDir, filename) for the
\* server directory dir, where uploadsDir is path.join(dir, 'uploads'); '/'
\* is the only separator in it
filePath(dir, fname) == normalize(dir \o <<uploadsDir>> \o segments(fname, <<>>), <<>>)

\* path.basename of a normalised absolute path: its last segment, whether or
\* not a separator follows it, the empty string for the root
basename(segs) == IF segs = <<>> THEN <<>> ELSE segs[Len(segs)]

\* '/uploads/' + path.basename(req.file.path)
resumeRef(fname) == <<"/">> \o uploadsDir \o <<"/">> \o basename(filePath(__dirname, fname))

\* the files of the server directory that the handlers read and write
\* (lines 108, 118, 119)
dataDir == <<"d", "a", "t", "a">>
MAIL_LOG(dir) == dir \o <<dataDir, <<"e", "m", "a", "i", "l", "-", "l", "o", "g", ".", "j", "s", "o", "n", "l">>>>
JOBS_FILE(dir) == dir \o <<dataDir, <<"j", "o", "b", "s", ".", "j", "s", "o", "n">>>>
APPS_FILE(dir) == dir \o <<dataDir, <<"a", "p", "p", "l", "i", "c", "a", "t", "i", "o", "n", "s", ".", "j", "s", "o", "n">>>>

\* the file of the uploads directory that full names, NoFile when it names
\* anything else
resolveResume(resume) ==
    LET n == full(__dirname, resume)
        d == Len(__dirname)
    IN  IF Len(n) = d + 2 /\ SubSeq(n, 1, d) = __dirname /\ n[d + 1] = uploadsDir
           /\ n[d + 2] /= <<>>
        THEN n[d + 2] ELSE NoFile

-----------------------------------------------------------------------------
(* Configuration read from the environment at start-up. *)

\* the four EmailJS values, each set or missing: service id, user id,
\* confirm-template id, reject-template id (server.js:56-59)
MailEnvs == [SERVICE_ID : BOOLEAN, USER_ID : BOOLEAN,
             TEMPLATE_CONFIRM : BOOLEAN, TEMPLATE_REJECT : BOOLEAN]

\* a faulty variant that forgets the reject template, for testing C8
mailerConfiguredNoReject(e) == e.SERVICE_ID /\ e.USER_ID /\ e.TEMPLATE_CONFIRM

\* server.js:65: all four must be truthy
mailerConfiguredFrom(e) ==
    e.SERVICE_ID /\ e.USER_ID /\ e.TEMPLATE_CONFIRM /\ e.TEMPLATE_REJECT

AdminName == JSString(<<"a">>)
AdminPass == JSString(<<"p">>)
AdminSet == [username |-> AdminName, password |-> AdminPass]
AdminUnset == {[username |-> JSUndefined, password |-> JSUndefined],
               [username |-> AdminName, password |-> JSUndefined],
               [username |-> JSUndefined, password |-> AdminPass]}

-----------------------------------------------------------------------------
(* Inputs of the requests. *)

\* route parameter :id, a string
IdParams == {ToString(t) : t \in 1..MaxTime}

LoginValues == {JSUndefined, AdminName, AdminPass}

ValidName == JSString(<<"J">>)
ValidEmail == JSString(<<"a", "@", "b", ".", "c">>)
ValidPhone == JSString(<<"+", "9", "1", " ", "5", "5", "-", "1", "2">>)
ValidCover == JSString(<<"h", "i">>)
ValidForm == [name |-> ValidName, email |-> ValidEmail, phone |-> ValidPhone, cover |-> ValidCover]

CoreForms == {ValidForm, [ValidForm EXCEPT !.name = JSUndefined]}

\* further forms: an empty cover, no field at all, e-mails that are refused
\* (no dot after the @, a space, a line feed), phone numbers that are refused
\* (too short, a letter) and one that is accepted with a line feed at its
\* end (\s is in the character class)
AllForms ==
    CoreForms \cup
    { [ValidForm EXCEPT !.cover = JSString(<<>>)],
      [name |-> JSUndefined, email |-> JSUndefined, phone |-> JSUndefined, cover |-> JSUndefined],
      [ValidForm EXCEPT !.email = JSString(<<"a", "@", "b">>)],
      [ValidForm EXCEPT !.email = JSString(<<"a", " ", "@", "b", ".", "c">>)],
      [ValidForm EXCEPT !.email = JSString(<<"a", "\n", "@", "b", ".", "c">>)],
      [ValidForm EXCEPT !.phone = JSString(<<"1", "2", "3", "4", "5", "6">>)],
      [ValidForm EXCEPT !.phone = JSString(<<"1", "2", "3", "4", "5", "6", "x">>)],
      [ValidForm EXCEPT !.phone = JSString(<<"1", "2", "3", "4", "5", "6", "7", "\n">>)] }

\* the file part of the multipart body: none, or its original name and size.
\* The names hold no separator: multer's parser (preservePath is not set)
\* keeps only what follows the last '/' or '\\' of the name sent.
NoUpload == [name |-> <<>>, size |-> 0]
PdfName == <<"c", "v", ".", "p", "d", "f">>
SpacedName == <<"c", " ", "\n", " ", "v", ".", "P", "D", "F">>
ExeName == <<"c", "v", ".", "e", "x", "e">>
HiddenName == <<".", "p", "d", "f">>

CoreUploads ==
    { [name |-> PdfName, size |-> MIN_RESUME_BYTES],
      [name |-> PdfName, size |-> MIN_RESUME_BYTES - 1],
      [name |-> PdfName, size |-> MAX_RESUME_BYTES + 1] }

AllUploads ==
    CoreUploads \cup
    { NoUpload,
      [name |-> ExeName, size |-> MIN_RESUME_BYTES],
      [name |-> HiddenName, size |-> MIN_RESUME_BYTES],
      [name |-> SpacedName, size |-> MIN_RESUME_BYTES] }

\* outcomes of the fetch to the mail API: response.ok, a non-OK response,
\* a rejected fetch
MailOutcomes == {"ok", "http_error", "network_error"}

-----------------------------------------------------------------------------
(* State after start-up: no data files yet, nobody logged in. *)

NoSession == [user |-> JSUndefined]
NoResp == [op |-> "none"]
NoResume == <<>>

\* the server is installed in /srv/app
ServerDir == <<<<"s", "r", "v">>, <<"a", "p", "p">>>>

InitWith(envs, admins) ==
    /\ env \in envs
    /\ mailerConfigured = mailerConfiguredFrom(env)
    /\ ADMIN_USER \in admins
    /\ __dirname = ServerDir
    /\ jobs = <<>>
    /\ apps = <<>>
    /\ files = <<>>
    /\ mailLog = <<>>
    /\ apiCalls = 0
    /\ session = NoSession
    /\ now = 1
    /\ incoming = {}
    /\ uploads = {}
    /\ confirms = {}
    /\ rejects = {}
    /\ resp = NoResp

AllSet == [SERVICE_ID |-> TRUE, USER_ID |-> TRUE,
           TEMPLATE_CONFIRM |-> TRUE, TEMPLATE_REJECT |-> TRUE]
NoneSet == [SERVICE_ID |-> FALSE, USER_ID |-> FALSE,
            TEMPLATE_CONFIRM |-> FALSE, TEMPLATE_REJECT |-> FALSE]

Init == InitWith({AllSet, NoneSet}, {AdminSet})

-----------------------------------------------------------------------------
(* Helpers shared by the handlers. *)

\* fs.existsSync(path) for a file of the uploads directory
existsSync(fs, f) == f \in DOMAIN fs

\* if (fs.existsSync(full)) fs.unlinkSync(full), for each file of fset
unlinkAll(fs, fset) == [f \in (DOMAIN fs) \ fset |-> fs[f]]

\* A file of the uploads directory is its size in bytes and the identity
\* (ino) of the file behind the name: a write stream keeps writing to the
\* file it opened even after the name was unlinked or given to a new file.

\* an identity no file and no open write stream has
freshIno(fs, streams) ==
    LET used == {fs[f].ino : f \in DOMAIN fs} \cup {w.ino : w \in streams}
    IN  CHOOSE n \in 1..(Cardinality(used) + 1) :
            n \notin used /\ \A m \in 1..(n - 1) : m \in used

\* fs.createWriteStream(finalPath) of multer's disk storage (flags 'w'): an
\* existing file is truncated, a missing one created empty
openFile(fs, f, ino) ==
    [g \in (DOMAIN fs) \cup {f} |->
        IF g /= f THEN fs[g]
        ELSE IF f \in DOMAIN fs THEN [size |-> 0, ino |-> fs[f].ino]
        ELSE [size |-> 0, ino |-> ino]]

\* the stream has written size bytes from offset 0 to the file it opened;
\* nothing shows in the directory when that file is no longer the one
\* behind the name
writeFile(fs, f, ino, size) ==
    IF f \in DOMAIN fs /\ fs[f].ino = ino
    THEN [fs EXCEPT ![f].size = IF size > @ THEN size ELSE @]
    ELSE fs

\* the resume files of the records of a sequence that carry a resume
resumeFiles(removed) ==
    {resolveResume(removed[k].resume) : k \in {i \in 1..Len(removed) : removed[i].resume /= NoResume}}

\* the paths the delete paths hand to fs.unlinkSync for those records
resumePaths(removed) ==
    {full(__dirname, removed[k].resume) : k \in {i \in 1..Len(removed) : removed[i].resume /= NoResume}}

\* A resume reference can name a data file of the server instead of an
\* upload; the file is then unlinked, and readJobs() (lines 120-127) gives
\* [] for a missing jobs.json.
jobsAfterUnlink(js, paths) == IF JOBS_FILE(__dirname) \in paths THEN <<>> ELSE js

\* the same for the mail log, which appendFileSync (line 112) starts anew.
\* Unlinking APPS_FILE leaves no trace: each handler writes the file anew
\* with writeApplications right after its unlinks (lines 351, 380, 450).
mailLogAfterUnlink(log, paths) == IF MAIL_LOG(__dirname) \in paths THEN <<>> ELSE log

\* a faulty variant that admits every request, for testing C3
AuthenticatedAlways(s) == TRUE

\* if (!req.session.user)
Authenticated(s) == s.user /= JSUndefined

Pending ==
    Cardinality(incoming) + Cardinality(uploads) + Cardinality(confirms) + Cardinality(rejects)

\* logMailAttempt
logMailAttempt(log, subject, sent) == Append(log, [sent |-> sent])

\* sendEmailJS once fetch has settled: TRUE when it returns true, FALSE when
\* it throws (a non-OK response, or the fetch itself rejecting)
sendEmailJS(outcome) == outcome = "ok"

-----------------------------------------------------------------------------
(* POST /admin/login, POST /admin/logout *)

credentialsMatch(username, password) ==
    username = ADMIN_USER.username /\ password = ADMIN_USER.password

Login(username, password) ==
    /\ IF credentialsMatch(username, password)
       THEN /\ session' = [user |-> [username |-> username]]
            /\ resp' = [op |-> "login", status |-> 302, to |-> "/admin"]
       ELSE /\ session' = session
            /\ resp' = [op |-> "login", status |-> 200, view |-> "admin-login"]
    /\ UNCHANGED <<config, jobs, apps, files, mailLog,
                   apiCalls, now, incoming, uploads, confirms, rejects>>

Logout ==
    /\ session' = NoSession
    /\ resp' = [op |-> "logout", status |-> 302, to |-> "/"]
    /\ UNCHANGED <<config, jobs, apps, files, mailLog,
                   apiCalls, now, incoming, uploads, confirms, rejects>>

Forbidden(op) == [op |-> op, status |-> 403]

-----------------------------------------------------------------------------
(* POST /admin/jobs *)

AddJob(openings, experience) ==
    /\ IF ~Authenticated(session)
       THEN /\ resp' = Forbidden("addJob")
            /\ jobs' = jobs
       ELSE /\ Len(jobs) < MaxJobs
            /\ jobs' = Append(jobs, [id |-> now,
                                     openings |-> stringify(openingsNum(openings)),
                                     experience |-> stringify(expNum(experience))])
            /\ resp' = [op |-> "addJob", status |-> 302, to |-> "/admin",
                        openings |-> openings, experience |-> experience]
    /\ UNCHANGED <<config, apps, files, mailLog,
                   apiCalls, session, now, incoming, uploads, confirms, rejects>>

-----------------------------------------------------------------------------
(* POST /admin/jobs/:id/delete *)

\* jobs.filter(j => String(j.id) !== id)
jobsFiltered(js, id) == SelectSeq(js, LAMBDA j : ToString(j.id) /= id)

\* a faulty variant that compares the application's own id, for testing C1
remainingForJobById(as, id) == SelectSeq(as, LAMBDA a : ToString(a.id) /= id)

\* the records the forEach pushes to remaining: String(app.jobId) !== id
remainingForJob(as, id) == SelectSeq(as, LAMBDA a : ToString(a.jobId) /= id)

\* the records the forEach drops
removedForJob(as, id) == SelectSeq(as, LAMBDA a : ToString(a.jobId) = id)

DeleteJob(id) ==
    IF ~Authenticated(session)
    THEN /\ resp' = Forbidden("deleteJob")
         /\ UNCHANGED <<config, jobs, apps, files, mailLog,
                        apiCalls, session, now, incoming, uploads, confirms, rejects>>
    ELSE LET filtered == jobsFiltered(jobs, id)
             \* readJobs() after writeJobs(filtered)
             after == filtered
             stillExists == \E k \in 1..Len(after) : ToString(after[k].id) = id
         IN  /\ IF stillExists
                THEN /\ jobs' = filtered
                     /\ resp' = [op |-> "deleteJob", status |-> 500, id |-> id]
                     /\ UNCHANGED <<apps, files, mailLog>>
                ELSE \* the resumes are unlinked after writeJobs(filtered) and
                     \* before writeApplications(remaining)
                     /\ files' = unlinkAll(files, resumeFiles(removedForJob(apps, id)))
                     /\ jobs' = jobsAfterUnlink(filtered, resumePaths(removedForJob(apps, id)))
                     /\ mailLog' = mailLogAfterUnlink(mailLog, resumePaths(removedForJob(apps, id)))
                     /\ apps' = remainingForJob(apps, id)
                     /\ resp' = [op |-> "deleteJob", status |-> 302, to |-> "/admin",
                                 id |-> id, removed |-> removedForJob(apps, id)]
             /\ UNCHANGED <<config, apiCalls,
                            session, now, incoming, uploads, confirms, rejects>>

-----------------------------------------------------------------------------
(* POST /admin/applications/:id/delete *)

remainingForId(as, id) == SelectSeq(as, LAMBDA a : ToString(a.id) /= id)
removedForId(as, id) == SelectSeq(as, LAMBDA a : ToString(a.id) = id)

DeleteApplication(id) ==
    /\ IF ~Authenticated(session)
       THEN /\ resp' = Forbidden("deleteApplication")
            /\ UNCHANGED <<jobs, apps, files, mailLog>>
       ELSE /\ files' = unlinkAll(files, resumeFiles(removedForId(apps, id)))
            /\ jobs' = jobsAfterUnlink(jobs, resumePaths(removedForId(apps, id)))
            /\ mailLog' = mailLogAfterUnlink(mailLog, resumePaths(removedForId(apps, id)))
            /\ apps' = remainingForId(apps, id)
            /\ resp' = [op |-> "deleteApplication", status |-> 302, to |-> "/admin",
                        id |-> id, removed |-> removedForId(apps, id)]
    /\ UNCHANGED <<config, apiCalls,
                   session, now, incoming, uploads, confirms, rejects>>

-----------------------------------------------------------------------------
(* POST /admin/applications/:id/reject *)

\* apps.findIndex(app => String(app.id) === id), 0 for -1
findIndex(as, id) ==
    LET hits == {k \in 1..Len(as) : ToString(as[k].id) = id}
    IN  IF hits = {} THEN 0 ELSE CHOOSE k \in hits : \A m \in hits : k <= m

\* apps.filter((_, index) => index !== appIndex)
withoutIndex(as, i) == [k \in 1..(Len(as) - 1) |-> IF k < i THEN as[k] ELSE as[k + 1]]

\* a faulty variant that reads the store again after the notification, for
\* testing C11
RejectFinishRereads(r, outcome, log) ==
    LET applicationToReject == r.apps[r.appIndex]
        appIndex == findIndex(apps, r.id)
    IN  /\ apps' = IF appIndex = 0 THEN apps ELSE withoutIndex(apps, appIndex)
        /\ files' = unlinkAll(files, resumeFiles(<<applicationToReject>>))
        /\ jobs' = jobsAfterUnlink(jobs, resumePaths(<<applicationToReject>>))
        /\ mailLog' = mailLogAfterUnlink(log, resumePaths(<<applicationToReject>>))
        /\ resp' = [op |-> "reject", status |-> 302, to |-> "/admin", id |-> r.id,
                    found |-> TRUE, outcome |-> outcome, app |-> applicationToReject,
                    read |-> r.apps, store |-> apps]

\* lines 437-453: the part of the handler after the notification, log
\* being the mail log with the line of the notification appended.  The
\* response record also notes the list the handler read at line 398 (read)
\* and the store as it stood just before the write of line 450 (store).
RejectFinish(r, outcome, log) ==
    LET applicationToReject == r.apps[r.appIndex]
    IN  /\ apps' = withoutIndex(r.apps, r.appIndex)
        /\ files' = unlinkAll(files, resumeFiles(<<applicationToReject>>))
        /\ jobs' = jobsAfterUnlink(jobs, resumePaths(<<applicationToReject>>))
        /\ mailLog' = mailLogAfterUnlink(log, resumePaths(<<applicationToReject>>))
        /\ resp' = [op |-> "reject", status |-> 302, to |-> "/admin", id |-> r.id,
                    found |-> TRUE, outcome |-> outcome, app |-> applicationToReject,
                    read |-> r.apps, store |-> apps]

\* the handler up to its await (or to its end, when there is none)
RejectStart(id) ==
    IF ~Authenticated(session)
    THEN /\ resp' = Forbidden("reject")
         /\ UNCHANGED <<config, jobs, apps, files, mailLog,
                        apiCalls, session, now, incoming, uploads, confirms, rejects>>
    ELSE LET appIndex == findIndex(apps, id)
             r == [id |-> id, apps |-> apps, appIndex |-> appIndex]
         IN  IF appIndex = 0
             THEN /\ resp' = [op |-> "reject", status |-> 302, to |-> "/admin",
                              id |-> id, found |-> FALSE]
                  /\ UNCHANGED <<config, jobs, apps, files,
                                 mailLog, apiCalls, session, now, incoming, uploads,
                                 confirms, rejects>>
             ELSE /\ Len(mailLog) + Pending < MaxMail
                  /\ IF mailerConfigured
                     THEN /\ Pending < MaxPending
                          /\ r \notin rejects
                          /\ rejects' = rejects \cup {r}
                          /\ apiCalls' = apiCalls + 1
                          /\ resp' = NoResp
                          /\ UNCHANGED <<jobs, apps, files, mailLog>>
                     ELSE /\ RejectFinish(r, "skipped",
                                          logMailAttempt(mailLog, "reject", FALSE))
                          /\ UNCHANGED <<rejects, apiCalls>>
                  /\ UNCHANGED <<config, session, now,
                                 incoming, uploads, confirms>>

\* the handler from the settled fetch to its end
RejectMailDone(r, outcome) ==
    /\ r \in rejects
    /\ rejects' = rejects \ {r}
    /\ RejectFinish(r, outcome, logMailAttempt(mailLog, "reject", sendEmailJS(outcome)))
    /\ UNCHANGED <<config, apiCalls, session, now,
                   incoming, uploads, confirms>>

-----------------------------------------------------------------------------
(* POST /jobs/:id/apply *)

\* upload.single('resume'): what multer leaves for the callback.  file is
\* req.file (NoFile: undefined), err the error passed to the callback ("":
\* none).  A file over the size limit is removed again by multer.
ErrFileType == "Invalid file type. Only PDF, DOC and DOCX are allowed"
ErrFileSize == "File too large"

uploadErr(up) ==
    IF up = NoUpload THEN ""
    ELSE IF ~fileFilter(up.name) THEN ErrFileType
    ELSE IF up.size > MAX_RESUME_BYTES THEN ErrFileSize
    ELSE ""

uploadFile(up, t) ==
    IF up = NoUpload \/ uploadErr(up) /= "" THEN NoFile ELSE filename(t, up.name)

\* The request arrives and multer reads its body.  Without a file part, or
\* with one the file filter refuses, nothing is written and the callback is
\* due.  Otherwise the storage names the file (Date.now() is read here) and
\* opens it; the body then arrives over later turns of the event loop, with
\* other requests' handlers running in between.
ApplyUpload(id, form, up) ==
    LET u == [id |-> id, form |-> form, up |-> up,
              file |-> uploadFile(up, now), err |-> uploadErr(up)]
        f == filename(now, up.name)
        ino == IF existsSync(files, f) THEN files[f].ino ELSE freshIno(files, incoming)
        w == [id |-> id, form |-> form, up |-> up, file |-> f, ino |-> ino,
              written |-> FALSE]
    IN  /\ Pending < MaxPending
        /\ Len(apps) < MaxApps
        /\ Len(mailLog) + Pending < MaxMail
        /\ IF up = NoUpload \/ ~fileFilter(up.name)
           THEN /\ u \notin uploads
                /\ uploads' = uploads \cup {u}
                /\ UNCHANGED <<files, incoming>>
           ELSE /\ w \notin incoming
                /\ incoming' = incoming \cup {w}
                /\ files' = openFile(files, f, ino)
                /\ uploads' = uploads
        /\ resp' = NoResp
        /\ UNCHANGED <<config, jobs, apps, mailLog, apiCalls,
                       session, now, confirms, rejects>>

\* The file part has arrived and is written: all of it, or, for a file over
\* limits.fileSize, the bytes up to the limit.  A file within the limit is
\* req.file and the callback is due; one over it is still to be removed.
ApplyUploadWrite(w) ==
    LET u == [id |-> w.id, form |-> w.form, up |-> w.up, file |-> w.file, err |-> ""]
    IN  /\ w \in incoming
        /\ ~w.written
        /\ IF w.up.size > MAX_RESUME_BYTES
           THEN /\ files' = writeFile(files, w.file, w.ino, MAX_RESUME_BYTES)
                /\ incoming' = (incoming \ {w}) \cup {[w EXCEPT !.written = TRUE]}
                /\ uploads' = uploads
           ELSE /\ files' = writeFile(files, w.file, w.ino, w.up.size)
                /\ incoming' = incoming \ {w}
                /\ uploads' = uploads \cup {u}
        /\ resp' = NoResp
        /\ UNCHANGED <<config, jobs, apps, mailLog, apiCalls,
                       session, now, confirms, rejects>>

\* multer, after LIMIT_FILE_SIZE: the file it wrote is unlinked by its path
\* and the callback is due with the error and without req.file
ApplyUploadAbort(w) ==
    LET u == [id |-> w.id, form |-> w.form, up |-> w.up, file |-> NoFile,
              err |-> ErrFileSize]
    IN  /\ w \in incoming
        /\ w.written
        /\ files' = unlinkAll(files, {w.file})
        /\ incoming' = incoming \ {w}
        /\ uploads' = uploads \cup {u}
        /\ resp' = NoResp
        /\ UNCHANGED <<config, jobs, apps, mailLog, apiCalls,
                       session, now, confirms, rejects>>

\* jobs.find(j => String(j.id) === String(req.params.id)): its index, 0 for none
findJob(js, id) ==
    LET hits == {k \in 1..Len(js) : ToString(js[k].id) = id}
    IN  IF hits = {} THEN 0 ELSE CHOOSE k \in hits : \A m \in hits : k <= m

\* const form = { name: name || '', ... }
formOf(body) == [name |-> OrElse(body.name, JSString(<<>>)),
                 email |-> OrElse(body.email, JSString(<<>>)),
                 phone |-> OrElse(body.phone, JSString(<<>>)),
                 cover |-> OrElse(body.cover, JSString(<<>>))]

ErrRequired == "All fields are required"
ErrEmail == "Please enter a valid email address"
ErrPhone == "Please enter a valid phone number"
ErrNoResume == "Resume is required and must be PDF/DOC/DOCX within size limits"
ErrTooSmall == "Resume file is too small (min 50 KB)"
ErrStat == "Could not process resume file"

\* lines 183-219: the error the form is re-rendered with, "" when the
\* submission passes
applyError(u, fs) ==
    IF u.err /= "" THEN u.err
    ELSE IF Falsy(u.form.name) \/ Falsy(u.form.email) \/ Falsy(u.form.phone) \/ Falsy(u.form.cover)
         THEN ErrRequired
    ELSE IF ~emailRe(u.form.email.v) THEN ErrEmail
    ELSE IF ~phoneRe(u.form.phone.v) THEN ErrPhone
    ELSE IF u.file = NoFile THEN ErrNoResume
    ELSE IF ~existsSync(fs, u.file) THEN ErrStat
    ELSE IF fs[u.file].size < MIN_RESUME_BYTES THEN ErrTooSmall
    ELSE ""

\* a faulty variant that leaves the file of a bad phone number, for testing C10
applyCleanupNoPhone(u, error) ==
    IF error \in {ErrNoResume, ErrStat, ErrPhone, ""} \/ u.file = NoFile THEN {} ELSE {u.file}

\* lines 184-186, 191-193, 199, 205, 214: the files the failing branch unlinks
applyCleanup(u, error) ==
    IF error \in {ErrNoResume, ErrStat, ""} \/ u.file = NoFile THEN {} ELSE {u.file}

ApplyCallback(u) ==
    LET j == findJob(jobs, u.id)
        job == jobs[j]
        error == applyError(u, files)
        application == [id |-> now, jobId |-> job.id,
                        name |-> u.form.name, email |-> u.form.email,
                        phone |-> u.form.phone, cover |-> u.form.cover,
                        resume |-> resumeRef(u.file)]
    IN  /\ u \in uploads
        /\ uploads' = uploads \ {u}
        /\ IF j = 0
           THEN /\ resp' = [op |-> "apply", status |-> 404, req |-> u]
                /\ UNCHANGED <<apps, files, mailLog, apiCalls, confirms>>
           ELSE IF error /= ""
           THEN /\ files' = unlinkAll(files, applyCleanup(u, error))
                /\ resp' = [op |-> "apply", status |-> 200, view |-> "apply",
                            error |-> error, form |-> formOf(u.form), req |-> u]
                /\ UNCHANGED <<apps, mailLog, apiCalls, confirms>>
           ELSE /\ apps' = Append(apps, application)
                /\ files' = files
                /\ IF mailerConfigured
                   THEN /\ confirms' = confirms \cup {[req |-> u, application |-> application]}
                        /\ apiCalls' = apiCalls + 1
                        /\ resp' = NoResp
                        /\ mailLog' = mailLog
                   ELSE /\ mailLog' = logMailAttempt(mailLog, "confirm", FALSE)
                        /\ resp' = [op |-> "apply", status |-> 200, view |-> "apply-success",
                                    application |-> application, outcome |-> "skipped",
                                    req |-> u]
                        /\ UNCHANGED <<apiCalls, confirms>>
        /\ UNCHANGED <<config, jobs, session, now, incoming, rejects>>

\* the callback from the settled fetch to its end
ApplyMailDone(c, outcome) ==
    /\ c \in confirms
    /\ confirms' = confirms \ {c}
    /\ mailLog' = logMailAttempt(mailLog, "confirm", sendEmailJS(outcome))
    /\ resp' = [op |-> "apply", status |-> 200, view |-> "apply-success",
                application |-> c.application, outcome |-> outcome, req |-> c.req]
    /\ UNCHANGED <<config, jobs, apps, files, apiCalls,
                   session, now, incoming, uploads, rejects>>

-----------------------------------------------------------------------------
(* The clock behind Date.now(). *)

Tick ==
    /\ now < MaxTime
    /\ now' = now + 1
    /\ resp' = NoResp
    /\ UNCHANGED <<config, jobs, apps, files, mailLog,
                   apiCalls, session, incoming, uploads, confirms, rejects>>

-----------------------------------------------------------------------------

\* the submissions of the main specification: a passing one, one failing on
\* a required field, one under the minimum size, one over the maximum
CoreSubmissions ==
    { [form |-> ValidForm, up |-> [name |-> PdfName, size |-> MIN_RESUME_BYTES]],
      [form |-> [ValidForm EXCEPT !.name = JSUndefined],
       up |-> [name |-> PdfName, size |-> MIN_RESUME_BYTES]],
      [form |-> ValidForm, up |-> [name |-> PdfName, size |-> MIN_RESUME_BYTES - 1]],
      [form |-> ValidForm, up |-> [name |-> PdfName, size |-> MAX_RESUME_BYTES + 1]] }

CoreNums == {JSUndefined}

\* the steps that run a handler from a request to its first await or its end
NextRequest ==
    \/ Tick
    \/ \E username \in LoginValues, password \in LoginValues : Login(username, password)
    \/ Logout
    \/ \E openings \in CoreNums, experience \in CoreNums : AddJob(openings, experience)
    \/ \E id \in IdParams : DeleteJob(id)
    \/ \E id \in IdParams : DeleteApplication(id)
    \/ \E id \in IdParams : RejectStart(id)
    \/ \E id \in IdParams, sub \in CoreSubmissions : ApplyUpload(id, sub.form, sub.up)
    \/ \E w \in incoming : ApplyUploadWrite(w)
    \/ \E w \in incoming : ApplyUploadAbort(w)
    \/ \E u \in uploads : ApplyCallback(u)

\* the steps that resume a handler once the mail API has answered
NextMailDone ==
    \/ \E r \in rejects, outcome \in MailOutcomes : RejectMailDone(r, outcome)
    \/ \E c \in confirms, outcome \in MailOutcomes : ApplyMailDone(c, outcome)

Next == NextRequest \/ NextMailDone

Spec == Init /\ [][Next]_vars

\* The server started without (both) admin credentials.
InitNoAdmin == InitWith({NoneSet}, AdminUnset)
SpecNoAdmin == InitNoAdmin /\ [][NextRequest]_vars

\* Every combination of the four EmailJS values; applying and rejecting.
InitMail == InitWith(MailEnvs, {AdminSet})
NextMail ==
    \/ Tick
    \/ Login(AdminName, AdminPass)
    \/ AddJob(JSUndefined, JSUndefined)
    \/ \E id \in IdParams, sub \in CoreSubmissions : ApplyUpload(id, sub.form, sub.up)
    \/ \E w \in incoming : ApplyUploadWrite(w)
    \/ \E w \in incoming : ApplyUploadAbort(w)
    \/ \E u \in uploads : ApplyCallback(u)
    \/ \E c \in confirms, outcome \in MailOutcomes : ApplyMailDone(c, outcome)
    \/ \E id \in IdParams : RejectStart(id)
    \/ \E r \in rejects, outcome \in MailOutcomes : RejectMailDone(r, outcome)
SpecMail == InitMail /\ [][NextMail]_vars

\* The apply form with every form and upload of AllSubmissions, sent for
\* the job of id 1 (which exists, or not, when the callback runs).
AllSubmissions ==
    {[form |-> f, up |-> [name |-> PdfName, size |-> MIN_RESUME_BYTES]] : f \in AllForms}
    \cup {[form |-> ValidForm, up |-> up] : up \in AllUploads}
NextApply ==
    \/ Tick
    \/ Login(AdminName, AdminPass)
    \/ AddJob(JSUndefined, JSUndefined)
    \/ \E sub \in AllSubmissions : ApplyUpload(ToString(1), sub.form, sub.up)
    \/ \E w \in incoming : ApplyUploadWrite(w)
    \/ \E w \in incoming : ApplyUploadAbort(w)
    \/ \E u \in uploads : ApplyCallback(u)
    \/ \E c \in confirms, outcome \in MailOutcomes : ApplyMailDone(c, outcome)
SpecApply == Init /\ [][NextApply]_vars

\* The job store with every numeric input of NumInputs: missing, empty,
\* without a leading digit, zero, negative, in and above the range of
\* experience, with white space or a sign before the digits and with a
\* letter after them, and integers that are not doubles: 2^53 + 1 and
\* 2^53 + 3 (each halfway between two doubles), the numbers of 17 digits
\* and 292 zeros just below and just above 2^1024 - 2^970, and -10^309.
Repeat(c, n) == [k \in 1..n |-> c]
LongInputs ==
    { JSString(<<"9", "0", "0", "7", "1", "9", "9", "2", "5", "4", "7", "4", "0", "9", "9", "3">>),
      JSString(<<"9", "0", "0", "7", "1", "9", "9", "2", "5", "4", "7", "4", "0", "9", "9", "5">>),
      JSString(<<"1", "7", "9", "7", "6", "9", "3", "1", "3", "4", "8", "6", "2", "3", "1", "5", "8">>
               \o Repeat("0", 292)),
      JSString(<<"1", "7", "9", "7", "6", "9", "3", "1", "3", "4", "8", "6", "2", "3", "1", "5", "9">>
               \o Repeat("0", 292)),
      JSString(<<"-", "1">> \o Repeat("0", 309)) }
NumInputs ==
    { JSUndefined, JSString(<<>>),
      JSString(<<"a", "b", "c">>), JSString(<<"-">>),
      JSString(<<"0">>), JSString(<<"-", "3">>),
      JSString(<<"1">>), JSString(<<"7">>), JSString(<<"5", "0">>), JSString(<<"5", "1">>),
      JSString(<<" ", "5">>), JSString(<<"\n", "5">>), JSString(<<"+", "4">>),
      JSString(<<"1", "2", "a">>) } \cup LongInputs
NextJobs ==
    \/ Tick
    \/ Login(AdminName, AdminPass)
    \/ Logout
    \/ \E openings \in NumInputs :
          \E experience \in {openings} \cup (IF openings \in LongInputs
                                               THEN {JSString(<<"1", "2", "a">>)}
                                               ELSE {JSUndefined}) :
              AddJob(openings, experience)
    \/ \E id \in IdParams : DeleteJob(id)
SpecJobs == InitWith({NoneSet}, {AdminSet}) /\ [][NextJobs]_vars

-----------------------------------------------------------------------------
(* The claims. *)

AdminOps == {"addJob", "deleteJob", "deleteApplication", "reject"}

\* C1: an authenticated delete of job :id leaves no application whose jobId,
\* as a string, equals :id; the resume file of every application it removed
\* is gone; the applications of other jobs are all still there, unchanged
\* and in their order.
C1_DeleteJobCascades ==
    [][(resp'.op = "deleteJob" /\ resp'.status /= 403) =>
        LET id == resp'.id
            others == {k \in 1..Len(apps) : ToString(apps[k].jobId) /= id}
        IN  /\ resp'.status = 302
            /\ \A k \in 1..Len(apps') : ToString(apps'[k].jobId) /= id
            /\ \A k \in 1..Len(apps) :
                  (ToString(apps[k].jobId) = id /\ apps[k].resume /= NoResume)
                      => ~existsSync(files', resolveResume(apps[k].resume))
            /\ Len(apps') = Cardinality(others)
            /\ \A k \in others :
                  apps'[Cardinality({m \in others : m <= k})] = apps[k]
    ]_vars

\* a delete of a job that removed an application with a resume and kept the
\* application of another job
C1_Witness ==
    /\ resp.op = "deleteJob" /\ resp.status = 302
    /\ \E k \in 1..Len(resp.removed) : resp.removed[k].resume /= NoResume
    /\ Len(apps) > 0

\* C3: without a session record each admin mutating route answers 403 and
\* leaves the two stores, the uploads and the mail log as they were, and
\* makes no call to the mail API and starts none.  (A step that takes a
\* pending rejection out of rejects resumes a request that was admitted
\* earlier; it is not a request.)
C3_ForbiddenChangesNothing ==
    [][(resp'.op \in AdminOps /\ session.user = JSUndefined /\ rejects \subseteq rejects') =>
        /\ resp'.status = 403
        /\ UNCHANGED <<jobs, apps, files, mailLog, apiCalls, rejects>>
    ]_vars

\* a refused admin request while both stores and the uploads hold data
C3_Witness ==
    /\ resp.op \in AdminOps /\ resp.status = 403
    /\ jobs /= <<>> /\ apps /= <<>> /\ DOMAIN files /= {}

\* C2: a reject of an existing application ends with no application of that
\* id in the store and with the resume file of the rejected one deleted,
\* whatever became of the notification, and answers with a redirect to /admin.
C2_RejectRemoves ==
    [][(resp'.op = "reject" /\ resp'.status /= 403 /\ resp'.found) =>
        /\ resp'.status = 302 /\ resp'.to = "/admin"
        /\ \A k \in 1..Len(apps') : ToString(apps'[k].id) /= resp'.id
        /\ resp'.app.resume /= NoResume
              => ~existsSync(files', resolveResume(resp'.app.resume))
    ]_vars

\* C4: started without the admin username or without the admin password, the
\* server never holds a session record.
C4_NoSessionWithoutCredentials ==
    (ADMIN_USER.username = JSUndefined \/ ADMIN_USER.password = JSUndefined)
        => session.user = JSUndefined

\* C5: a submission whose resume is under 50 KB or over 5 MB adds no record,
\* and the file it saved is gone when the callback is done.
C5_BadSizeLeavesNothing ==
    [][\A u \in uploads \ uploads' :
        (u.up /= NoUpload /\ (u.up.size < MIN_RESUME_BYTES \/ u.up.size > MAX_RESUME_BYTES)) =>
            /\ apps' = apps
            /\ u.file /= NoFile => ~existsSync(files', u.file)
    ]_vars

\* C6: every stored application with a resume names a file that is in the
\* uploads directory.
C6_ResumeFilesExist ==
    \A k \in 1..Len(apps) :
        apps[k].resume /= NoResume => existsSync(files, resolveResume(apps[k].resume))

\* C7: a submission to an existing job with four non-empty fields, a valid
\* email and phone and a resume of an allowed type and size appends exactly
\* one record, for that job, whose resume names a file on disk.
ValidSubmission(u) ==
    /\ ~Falsy(u.form.name) /\ ~Falsy(u.form.email)
    /\ ~Falsy(u.form.phone) /\ ~Falsy(u.form.cover)
    /\ emailRe(u.form.email.v) /\ phoneRe(u.form.phone.v)
    /\ u.up /= NoUpload /\ fileFilter(u.up.name)
    /\ u.up.size >= MIN_RESUME_BYTES /\ u.up.size <= MAX_RESUME_BYTES

C7_ValidApplyAppends ==
    [][\A u \in uploads \ uploads' :
        (findJob(jobs, u.id) /= 0 /\ ValidSubmission(u)) =>
            /\ Len(apps') = Len(apps) + 1
            /\ SubSeq(apps', 1, Len(apps)) = apps
            /\ apps'[Len(apps')].jobId = jobs[findJob(jobs, u.id)].id
            /\ apps'[Len(apps')].resume =
                  <<"/", "u", "p", "l", "o", "a", "d", "s", "/">> \o u.file
            /\ existsSync(files', u.file)
    ]_vars

\* C8: with any of the four EmailJS values missing the mail API is never
\* called; each stored application and each reject of an existing application
\* appends one mail-log line with sent = false and is answered at once with
\* the success page, or the redirect to /admin.
MailValueMissing ==
    ~env.SERVICE_ID \/ ~env.USER_ID \/ ~env.TEMPLATE_CONFIRM \/ ~env.TEMPLATE_REJECT

C8_UnconfiguredMailer ==
    [][MailValueMissing =>
        /\ apiCalls' = apiCalls
        /\ confirms' = {} /\ rejects' = {}
        /\ Len(apps') > Len(apps) =>
              /\ mailLog' = Append(mailLog, [sent |-> FALSE])
              /\ resp'.op = "apply" /\ resp'.status = 200 /\ resp'.view = "apply-success"
        /\ \A id \in IdParams :
              (session.user /= JSUndefined /\ findIndex(apps, id) /= 0
               /\ resp'.op = "reject" /\ resp'.id = id) =>
                  /\ mailLog' = Append(mailLog, [sent |-> FALSE])
                  /\ resp'.status = 302 /\ resp'.to = "/admin"
    ]_vars

\* a confirmation and then a rejection, both skipped, with two lines logged
C8_Witness ==
    /\ MailValueMissing /\ env /= NoneSet
    /\ resp.op = "reject" /\ resp.status = 302 /\ resp.found
    /\ mailLog = <<[sent |-> FALSE], [sent |-> FALSE]>>
    /\ apiCalls = 0

\* C10: a submission that saved a file and then fails on a required field,
\* the email, the phone or the minimum size has its file deleted, writes no
\* record, attempts no notification, and gets the form back with the values
\* it submitted.
FailsValidation(u, fs) ==
    \/ Falsy(u.form.name) \/ Falsy(u.form.email)
    \/ Falsy(u.form.phone) \/ Falsy(u.form.cover)
    \/ ~emailRe(u.form.email.v)
    \/ ~phoneRe(u.form.phone.v)
    \/ (existsSync(fs, u.file) /\ fs[u.file].size < MIN_RESUME_BYTES)

Submitted(x) == IF x = JSUndefined THEN JSString(<<>>) ELSE x

C10_FailedValidationCleansUp ==
    [][\A u \in uploads \ uploads' :
        (findJob(jobs, u.id) /= 0 /\ u.file /= NoFile /\ FailsValidation(u, files)) =>
            /\ ~existsSync(files', u.file)
            /\ apps' = apps
            /\ apiCalls' = apiCalls /\ mailLog' = mailLog /\ confirms' = confirms
            /\ resp'.op = "apply" /\ resp'.status = 200 /\ resp'.view = "apply"
            /\ resp'.error /= ""
            /\ resp'.form = [name |-> Submitted(u.form.name), email |-> Submitted(u.form.email),
                             phone |-> Submitted(u.form.phone), cover |-> Submitted(u.form.cover)]
    ]_vars

\* a form sent back for its phone number after its saved file was deleted,
\* while an earlier application and its file are in place
C10_Witness ==
    /\ resp.op = "apply" /\ resp.status = 200 /\ resp.view = "apply"
    /\ resp.error = ErrPhone
    /\ resp.req.file /= NoFile /\ ~existsSync(files, resp.req.file)
    /\ apps /= <<>>

\* The integer a decimal string begins with, read off the string itself:
\* leading white space, one optional sign, then the longest run of digits.
LeadStart(v) ==
    IF \A k \in 1..Len(v) : v[k] \in Whitespace THEN Len(v) + 1
    ELSE CHOOSE i \in 1..Len(v) : v[i] \notin Whitespace /\ \A k \in 1..(i - 1) : v[k] \in Whitespace

LeadDigits(v) ==
    LET i == LeadStart(v)
        p == IF i <= Len(v) /\ v[i] \in {"+", "-"} THEN i + 1 ELSE i
        others == {k \in p..Len(v) : ~IsDigit(v[k])} \cup {Len(v) + 1}
        q == (CHOOSE k \in others : \A m \in others : k <= m) - 1
    IN  [from |-> p, to |-> q, neg |-> (i <= Len(v) /\ v[i] = "-")]

HasLeadingInteger(x) ==
    /\ x /= JSUndefined
    /\ LeadDigits(x.v).to >= LeadDigits(x.v).from

\* the integer an input begins with, digit for digit
LeadingInteger(x) ==
    LET d == LeadDigits(x.v)
        run == [k \in 1..(d.to - d.from + 1) |-> DigitVal(x.v[d.from + k - 1])]
    IN  JSNumber(d.neg, digitChars(stripZeros(run)))

\* the whole input is one decimal integer: nothing follows its digits
IsNumber(x) == HasLeadingInteger(x) /\ LeadDigits(x.v).to = Len(x.v)

addedJob == jobs'[Len(jobs')]

\* an integer n with lo <= n, or with lo <= n <= hi
IsIntegerFrom(n, lo) == n.t = "number" /\ numLE(lo, n)
IsIntegerIn(n, lo, hi) == n.t = "number" /\ numLE(lo, n) /\ numLE(n, hi)

\* 2^53: up to it every integer is a double
MaxExact == JSNumber(FALSE, <<"9", "0", "0", "7", "1", "9", "9", "2", "5", "4", "7", "4", "0", "9", "9", "2">>)

\* 2^1024 - 2^970, halfway from the largest double to 2^1024: from it on
\* an integer is read as Infinity
Overflow ==
    JSNumber(FALSE, digitChars(fromLimbs(fromBits([k \in 1..1024 |-> IF k <= 54 THEN 1 ELSE 0], <<0>>))))

\* the double nearest to a positive integer below Overflow
Nearest(n) ==
    JSNumber(FALSE, digitChars(toDouble([k \in 1..Len(n.digits) |-> DigitVal(n.digits[k])])))

\* have run one after the other, in either order.
RejectThenDelete(list, id, other) ==
    LET i == findIndex(list, id)
    IN  remainingForId(IF i = 0 THEN list ELSE withoutIndex(list, i), other)

DeleteThenReject(list, id, other) ==
    LET rest == remainingForId(list, other)
        i == findIndex(rest, id)
    IN  IF i = 0 THEN rest ELSE withoutIndex(rest, i)

\* the ids :other whose delete completed between the read and the write of
\* the reject that has just answered: the store before the write was the
\* list read without the applications of that id
DeletedMeanwhile ==
    {other \in IdParams :
        /\ other /= resp.id
        /\ resp.store /= resp.read
        /\ resp.store = remainingForId(resp.read, other)}

\* C11: a reject whose read and write of the Application Store span a
\* completed delete of another application writes the list it read without
\* the rejected record: the deleted application is in the store again, and
\* the store differs from what the two requests leave in either serial
\* order.  (The witness shows that this interleaving is reached.)
C11_LostUpdate ==
    (resp.op = "reject" /\ resp.status /= 403 /\ resp.found) =>
        \A other \in DeletedMeanwhile :
            /\ apps = withoutIndex(resp.read, findIndex(resp.read, resp.id))
            /\ \E k \in 1..Len(apps) : ToString(apps[k].id) = other
            /\ apps /= RejectThenDelete(resp.read, resp.id, other)
            /\ apps /= DeleteThenReject(resp.read, resp.id, other)

\* a reject has answered after a delete of another application completed
\* inside it, and the deleted application is back in the store
C11_Witness ==
    /\ resp.op = "reject" /\ resp.status /= 403 /\ resp.found
    /\ session.user /= JSUndefined
    /\ DeletedMeanwhile /= {}
    /\ \A other \in DeletedMeanwhile :
          /\ \E k \in 1..Len(apps) : ToString(apps[k].id) = other
          /\ \A k \in 1..Len(resp.store) : ToString(resp.store[k].id) /= other
          /\ apps /= RejectThenDelete(resp.read, resp.id, other)
          /\ apps /= DeleteThenReject(resp.read, resp.id, other)

=============================================================================
